---- MODULE Spec2Model ----
(***************************************************************************)
(* BMP280 I2C driver (src/bmp280.c): the attach sequence bmp280_probe, the *)
(* sysfs read handler pressureAndTemperature_show and the detach handler   *)
(* bmp280_remove, one action per bus operation.                            *)
(*                                                                         *)
(* The i2c transport is the environment: every i2c_smbus_read_byte_data    *)
(* returns the addressed register's byte (0..255) or a negative errno, and *)
(* every i2c_smbus_write_byte_data returns 0 or a negative errno.          *)
(* `long` is 64 bits wide (an LP64 kernel build); the kernel is compiled   *)
(* with -fno-strict-overflow, so signed arithmetic wraps modulo 2^64.      *)
(***************************************************************************)
EXTENDS Integers, Sequences, FiniteSets, TLC

VARIABLES
    chipId,     \* sensor: content of register 0xD0
    nvm,        \* sensor: the factory calibration words held in 0x88..0x9F
    sample,     \* sensor: content of the data registers 0xF7..0xFC
    ctrl_meas,  \* sensor: content of register 0xF4
    config,     \* sensor: content of register 0xF5
    im_update,  \* sensor: status reads that still show the NVM copy running
    pc,         \* position of the driver core's probe/remove call
    tries,      \* bmp280_probe: local `tries`
    status,     \* bmp280_probe: local `status` (u8)
    calibIdx,   \* bmp280_probe: number of calibration bytes read so far
    lsb,        \* read_u16_from_i2c / read_s16_from_i2c: local `lsb`
    data,       \* struct bmp280_data (the twelve calibration fields)
    clientdata, \* i2c_set_clientdata has been called for the current data
    partial,    \* history: a calibration byte read that filled `data` failed
    attr,       \* the sysfs attribute Bmp280-Calculations exists
    probeRet,   \* return value of the last bmp280_probe (Running while inside)
    log,        \* bus operations and attribute creation of the current/last probe
    sh,         \* per reader: the state of its pressureAndTemperature_show call
    showFailed, \* history: a show call since the attach returned an error
    removeLog,  \* bus operations and attribute removal of the current/last remove
    readers,    \* the readers that open the attribute in this behaviour
    faults,     \* number of transport failures injected so far
    conversions,\* sensor: conversions finished since the last reset
    earlier,    \* observer: the calibration sets noted after earlier attaches
    arg,        \* function under examination: its name and arguments
    res         \* function under examination: its result (<<>> before the call)

vars == <<chipId, nvm, sample, ctrl_meas, config, im_update, pc, tries, status, calibIdx,
          lsb, data, clientdata, partial, attr, probeRet, log, sh, showFailed,
          removeLog, readers,
          faults, conversions, earlier, arg, res>>

sensorVars == <<chipId, nvm, sample, ctrl_meas, config, im_update, conversions>>
localVars  == <<tries, status, calibIdx, lsb>>
bindVars   == <<data, clientdata, partial, attr, readers, removeLog>>
devVars    == <<bindVars, showFailed>>
obsVars    == <<earlier, arg, res>>

-----------------------------------------------------------------------------
(* Bounds of the model.                                                    *)

MaxFaults == 1        \* transport failures injected in one behaviour

-----------------------------------------------------------------------------
(* Program constants.                                                      *)

EIO == 5
ENODEV == 19
BMP280_CHIP_ID == 88      \* 0x58
REG_ID == 208             \* 0xD0
REG_RESET == 224          \* 0xE0
RESET_CMD == 182          \* 0xB6
REG_STATUS == 243         \* 0xF3
REG_CTRL_MEAS == 244      \* 0xF4
CTRL_MEAS_NORMAL == 47    \* 0x2F
CTRL_MEAS_SLEEP == 0
REG_CONFIG == 245         \* 0xF5
CONFIG_INIT == 72         \* 0x48
REG_CALIB == 136          \* 0x88
NCALIB == 24              \* calibration bytes 0x88..0x9F
POLL_TRIES == 10

Running == 1              \* probeRet / ret while the call has not returned

\* Negative errnos the transport returns: -EIO (low byte 0xFB, bit 0 set) and
\* -168 (low byte 0x58, bit 0 clear).  Where the driver looks at nothing but
\* the sign of the result, -EIO stands for every errno.
ErrCodes == {-5, -168}

Readers == {1, 2}         \* concurrent readers of the sysfs attribute

\* How many status reads after a reset find the NVM copy still running
\* (bit 0 of 0xF3 set): none, one, five, all but the last poll, every poll.
BusyReads == {0, 1, 5, 9, 10}

\* Chip IDs of the devices considered: BMP280 (0x58) and BME280 (0x60).
ChipIds == {88, 96}

Fields == <<"dig_T1", "dig_T2", "dig_T3", "dig_P1", "dig_P2", "dig_P3",
            "dig_P4", "dig_P5", "dig_P6", "dig_P7", "dig_P8", "dig_P9">>
UnsignedFields == {"dig_T1", "dig_P1"}

\* Calibration words of the sensors considered: the datasheet's worked
\* example, the same with dig_P1 = 0, and one whose pressure divisor var1 is
\* 0 for the first measurement although dig_P1 = 1 (and negative for the
\* reset sample).
Calibs ==
    { [dig_T1 |-> 27504, dig_T2 |-> 26435, dig_T3 |-> -1000,
       dig_P1 |-> 36477, dig_P2 |-> -10685, dig_P3 |-> 3024,
       dig_P4 |-> 2855, dig_P5 |-> 140, dig_P6 |-> -7,
       dig_P7 |-> 15500, dig_P8 |-> -14600, dig_P9 |-> 6000],
      [dig_T1 |-> 27504, dig_T2 |-> 26435, dig_T3 |-> -1000,
       dig_P1 |-> 0, dig_P2 |-> -10685, dig_P3 |-> 3024,
       dig_P4 |-> 2855, dig_P5 |-> 140, dig_P6 |-> -7,
       dig_P7 |-> 15500, dig_P8 |-> -14600, dig_P9 |-> 6000],
      [dig_T1 |-> 0, dig_T2 |-> 27162, dig_T3 |-> 20000,
       dig_P1 |-> 1, dig_P2 |-> -32768, dig_P3 |-> 0,
       dig_P4 |-> 2855, dig_P5 |-> 140, dig_P6 |-> -7,
       dig_P7 |-> 15500, dig_P8 |-> -14600, dig_P9 |-> 6000] }

ZeroData == [f \in {Fields[i] : i \in 1..12} |-> 0]

\* Data registers 0xF7..0xFC (press msb/lsb/xlsb, temp msb/lsb/xlsb).  The
\* measurements the sensor delivers after a reset, in order: the datasheet's
\* worked example (adc_P = 415148, adc_T = 519888), then a full-scale sample.
Measurements ==
    << (247 :> 101) @@ (248 :> 90) @@ (249 :> 192) @@ (250 :> 126) @@ (251 :> 237) @@ (252 :> 0),
       (247 :> 255) @@ (248 :> 255) @@ (249 :> 255) @@ (250 :> 255) @@ (251 :> 255) @@ (252 :> 240) >>
\* The data registers' content after a reset (0x80000 in both).
ResetSample ==
    (247 :> 128) @@ (248 :> 0) @@ (249 :> 0) @@ (250 :> 128) @@ (251 :> 0) @@ (252 :> 0)

-----------------------------------------------------------------------------
(* C conversions and operators on int.                                     *)

U8(x) == x % 256                         \* (u8) x
U16(x) == x % 65536                      \* (unsigned short) x
S16(x) == IF x % 65536 >= 32768 THEN (x % 65536) - 65536 ELSE x % 65536

RECURSIVE BitOr(_, _)
\* a | b on two's-complement ints (x \div 2 is the arithmetic shift x >> 1).
BitOr(a, b) ==
    IF a = 0 THEN b
    ELSE IF b = 0 THEN a
    ELSE IF a = -1 \/ b = -1 THEN -1
    ELSE (IF a % 2 = 1 \/ b % 2 = 1 THEN 1 ELSE 0) + 2 * BitOr(a \div 2, b \div 2)

-----------------------------------------------------------------------------
(* 64-bit two's-complement arithmetic (long, int64_t): a value is its      *)
(* eight bytes, least significant first; every result is taken modulo 2^64.*)

Pow2(r) == <<1, 2, 4, 8, 16, 32, 64, 128, 256>>[r + 1]

\* Carry propagation: the eight (nine) low bytes of the number whose byte
\* columns are c1, c2, ... (any integers).
Norm8(c1, c2, c3, c4, c5, c6, c7, c8) ==
    LET t1 == c1
        t2 == c2 + (t1 \div 256)
        t3 == c3 + (t2 \div 256)
        t4 == c4 + (t3 \div 256)
        t5 == c5 + (t4 \div 256)
        t6 == c6 + (t5 \div 256)
        t7 == c7 + (t6 \div 256)
        t8 == c8 + (t7 \div 256)
    IN  <<t1 % 256, t2 % 256, t3 % 256, t4 % 256, t5 % 256, t6 % 256, t7 % 256, t8 % 256>>
Norm9(c1, c2, c3, c4, c5, c6, c7, c8, c9) ==
    LET t1 == c1
        t2 == c2 + (t1 \div 256)
        t3 == c3 + (t2 \div 256)
        t4 == c4 + (t3 \div 256)
        t5 == c5 + (t4 \div 256)
        t6 == c6 + (t5 \div 256)
        t7 == c7 + (t6 \div 256)
        t8 == c8 + (t7 \div 256)
        t9 == c9 + (t8 \div 256)
    IN  <<t1 % 256, t2 % 256, t3 % 256, t4 % 256, t5 % 256, t6 % 256, t7 % 256, t8 % 256, t9 % 256>>

\* (long) n for an int n.
L64(n) ==
    LET s == IF n < 0 THEN 255 ELSE 0
    IN  <<n % 256, (n \div 256) % 256, (n \div 65536) % 256,
          (n \div 16777216) % 256, s, s, s, s>>
\* The int a 64-bit value within the 32-bit range stands for.
ToInt(a) == a[1] + 256 * a[2] + 65536 * a[3]
            + 16777216 * (IF a[8] >= 128 THEN a[4] - 256 ELSE a[4])

IsNeg(a) == a[8] >= 128
IsZero(a) == a = <<0, 0, 0, 0, 0, 0, 0, 0>>
Add(a, b) == Norm8(a[1] + b[1], a[2] + b[2], a[3] + b[3], a[4] + b[4],
                   a[5] + b[5], a[6] + b[6], a[7] + b[7], a[8] + b[8])
Sub(a, b) == Norm8(a[1] - b[1], a[2] - b[2], a[3] - b[3], a[4] - b[4],
                   a[5] - b[5], a[6] - b[6], a[7] - b[7], a[8] - b[8])
Neg(a) == Sub(L64(0), a)
Abs(a) == IF IsNeg(a) THEN Neg(a) ELSE a

Mul(a, b) ==
    Norm8(a[1] * b[1],
          a[1] * b[2] + a[2] * b[1],
          a[1] * b[3] + a[2] * b[2] + a[3] * b[1],
          a[1] * b[4] + a[2] * b[3] + a[3] * b[2] + a[4] * b[1],
          a[1] * b[5] + a[2] * b[4] + a[3] * b[3] + a[4] * b[2] + a[5] * b[1],
          a[1] * b[6] + a[2] * b[5] + a[3] * b[4] + a[4] * b[3] + a[5] * b[2] + a[6] * b[1],
          a[1] * b[7] + a[2] * b[6] + a[3] * b[5] + a[4] * b[4] + a[5] * b[3] + a[6] * b[2] + a[7] * b[1],
          a[1] * b[8] + a[2] * b[7] + a[3] * b[6] + a[4] * b[5] + a[5] * b[4] + a[6] * b[3] + a[7] * b[2] + a[8] * b[1])

\* a << n, 0 <= n < 64.
Shl(a, n) ==
    LET q == n \div 8
        p == Pow2(n % 8)
        col(i) == IF i > q THEN a[i - q] * p ELSE 0
    IN  Norm8(col(1), col(2), col(3), col(4), col(5), col(6), col(7), col(8))

\* a >> n on a signed value (arithmetic shift), 0 <= n < 64.
Sar(a, n) ==
    LET q == n \div 8
        p == Pow2(n % 8)
        s == IF IsNeg(a) THEN 255 ELSE 0
        ext(i) == IF i <= 8 THEN a[i] ELSE s
        byte(i) == (ext(i + q) \div p) + (ext(i + q + 1) % p) * (256 \div p)
    IN  <<byte(1), byte(2), byte(3), byte(4), byte(5), byte(6), byte(7), byte(8)>>

RECURSIVE GeU(_, _, _)
\* a >= b as unsigned numbers, comparing from byte i down.
GeU(a, b, i) ==
    IF i = 0 THEN TRUE
    ELSE IF a[i] # b[i] THEN a[i] > b[i]
    ELSE GeU(a, b, i - 1)

\* Index of the most significant non-zero byte of d # 0.
TopByte(d) ==
    IF d[8] # 0 THEN 8 ELSE IF d[7] # 0 THEN 7 ELSE IF d[6] # 0 THEN 6
    ELSE IF d[5] # 0 THEN 5 ELSE IF d[4] # 0 THEN 4 ELSE IF d[3] # 0 THEN 3
    ELSE IF d[2] # 0 THEN 2 ELSE 1

\* q * d for a byte q, as nine bytes.
Times(d, q) == Norm9(q * d[1], q * d[2], q * d[3], q * d[4], q * d[5],
                     q * d[6], q * d[7], q * d[8], 0)
Sub9(a, b) == Norm9(a[1] - b[1], a[2] - b[2], a[3] - b[3], a[4] - b[4],
                    a[5] - b[5], a[6] - b[6], a[7] - b[7], a[8] - b[8],
                    a[9] - b[9])

\* One step of the long division by the unsigned d # 0 in base 256: from the
\* remainder r < d of the bytes above and the next dividend byte nb, the
\* quotient byte and the new remainder.  The quotient byte is estimated from
\* the leading bytes (never too small, at most 2 too large) and corrected.
DivStep(d, r, nb) ==
    LET k   == TopByte(d)
        R   == <<nb>> \o r
        d9  == Append(d, 0)
        est == IF k = 1 THEN (R[2] * 256 + R[1]) \div d[1]
               ELSE LET e == (R[k + 1] * 65536 + R[k] * 256 + R[k - 1])
                                \div (d[k] * 256 + d[k - 1])
                    IN  IF e > 255 THEN 255 ELSE e
        p0  == Times(d, est)
        p1  == Sub9(p0, d9)
        q   == IF GeU(R, p0, 9) THEN est
               ELSE IF GeU(R, p1, 9) THEN est - 1 ELSE est - 2
        p   == IF q = est THEN p0 ELSE IF q = est - 1 THEN p1 ELSE Sub9(p1, d9)
    IN  <<q, SubSeq(Sub9(R, p), 1, 8)>>

RECURSIVE ByteSteps(_, _, _, _)
\* Quotient bytes i..1 (low first) of unsigned n by unsigned d # 0, given
\* the remainder r of the bytes above i.
ByteSteps(n, d, i, r) ==
    IF i = 0 THEN <<>>
    ELSE LET s == DivStep(d, r, n[i])
         IN  Append(ByteSteps(n, d, i - 1, s[2]), s[1])

\* C's signed division a / d (truncating toward zero), d # 0.
Div(a, d) ==
    LET q == ByteSteps(Abs(a), Abs(d), 8, L64(0))
    IN  IF IsNeg(a) # IsNeg(d) THEN Neg(q) ELSE q

RECURSIVE DivSmallU(_, _, _, _)
\* Unsigned division by a small d (0 < d < 2^23), bytes i..1, given the
\* remainder left by the bytes above: <<quotient bytes, remainder>>.
DivSmallU(a, d, i, rem) ==
    IF i = 0 THEN <<<<>>, rem>>
    ELSE LET t == rem * 256 + a[i]
             lo == DivSmallU(a, d, i - 1, t % d)
         IN  <<Append(lo[1], t \div d), lo[2]>>

Digit(n) == <<"0", "1", "2", "3", "4", "5", "6", "7", "8", "9">>[n + 1]

RECURSIVE DecU(_)
\* Decimal digits of an unsigned value, most significant first.
DecU(a) ==
    LET qr == DivSmallU(a, 10, 8, 0)
    IN  IF IsZero(qr[1]) THEN <<Digit(qr[2])>> ELSE Append(DecU(qr[1]), Digit(qr[2]))

\* printf's %ld.
Dec(a) == IF IsNeg(a) THEN <<"-">> \o DecU(Neg(a)) ELSE DecU(a)

-----------------------------------------------------------------------------
(* The sensor's registers as the transport sees them.                      *)

\* Byte held at calibration address a (little-endian 16-bit words).
NvmByte(a) ==
    LET w == U16(nvm[Fields[((a - REG_CALIB) \div 2) + 1]])
    IN  IF (a - REG_CALIB) % 2 = 0 THEN w % 256 ELSE w \div 256

\* Values a successful read of register a can deliver.
RegValues(a) ==
    IF a = REG_ID THEN {chipId}
    ELSE IF a = REG_STATUS THEN {IF im_update > 0 THEN 1 ELSE 0}
    ELSE IF a \in REG_CALIB..(REG_CALIB + NCALIB - 1) THEN {NvmByte(a)}
    ELSE IF a \in DOMAIN sample THEN {sample[a]}
    ELSE {0}

\* Errnos a failing transfer on register a returns, while failures remain.
FaultCodes(a) ==
    IF faults >= MaxFaults THEN {}
    ELSE IF a \in {REG_ID, REG_STATUS} THEN ErrCodes
    ELSE {-EIO}

\* Possible return values of i2c_smbus_read_byte_data(client, a).
ReadResults(a) == RegValues(a) \cup FaultCodes(a)
\* Possible return values of i2c_smbus_write_byte_data(client, a, v).
WriteResults(a) == {0} \cup FaultCodes(a)

Charge(ret) == IF ret < 0 THEN faults + 1 ELSE faults

LogEntry(op, a, v, ret) == [op |-> op, addr |-> a, val |-> v, ret |-> ret]

-----------------------------------------------------------------------------
\* A reader that is not inside pressureAndTemperature_show.
IdleShow == [pc |-> "idle", rd |-> <<>>, ops |-> <<>>, t_fine |-> L64(0),
             T |-> L64(0), ret |-> Running, buf |-> <<>>]

-----------------------------------------------------------------------------
\* The registered driver with an unprobed device on the bus.
Unbound ==
    /\ chipId \in ChipIds
    /\ nvm \in Calibs
    /\ sample = ResetSample
    /\ ctrl_meas = 0
    /\ config = 0
    /\ im_update = 0
    /\ pc = "unbound"
    /\ tries = 0
    /\ status = 0
    /\ calibIdx = 0
    /\ lsb = 0
    /\ data = ZeroData
    /\ clientdata = FALSE
    /\ partial = FALSE
    /\ attr = FALSE
    /\ probeRet = Running
    /\ log = <<>>
    /\ sh = [c \in Readers |-> IdleShow]
    /\ showFailed = FALSE
    /\ removeLog = <<>>
    /\ conversions = 0
    /\ earlier = {}

\* No function of the driver is examined in isolation.
NoCall == arg = <<>> /\ res = <<>>

Init == Unbound /\ readers = {1} /\ faults = 0 /\ NoCall

\* The same on a bus on which no transfer fails.
InitReliable == Unbound /\ readers = {1} /\ faults = MaxFaults /\ NoCall

\* Two readers of the attribute, on a bus on which no transfer fails.
InitTwoReaders == Unbound /\ readers = Readers /\ faults = MaxFaults /\ NoCall

-----------------------------------------------------------------------------
(* bmp280_probe                                                            *)

\* The chip-ID test of line 193 on the value returned by the read of 0xD0.
ChipIdOk(ret) == U8(ret) = BMP280_CHIP_ID

\* Lines 190-196: read the chip ID into a u8 and compare it with 0x58.
ProbeChipId ==
    /\ pc = "unbound"
    /\ \E ret \in ReadResults(REG_ID) :
        /\ faults' = Charge(ret)
        /\ log' = <<LogEntry("read", REG_ID, 0, ret)>>
        /\ IF ChipIdOk(ret)
           THEN pc' = "reset" /\ probeRet' = Running
           ELSE pc' = "return" /\ probeRet' = -ENODEV
    /\ removeLog' = <<>>
    /\ UNCHANGED <<sensorVars, localVars, data, clientdata, partial, attr,
                   readers, showFailed, sh, obsVars>>

\* Variant of WriteFailed that forgets the test (sensitivity of the
\* abort-on-failed-write property).
WriteFailedNever(ret) == FALSE

\* The tests of lines 199, 234 and 252 on a write's return value.
WriteFailed(ret) == ret < 0

\* Variant of ProbeReset on a sensor whose NVM copy after a reset may
\* deliver another calibration set (sensitivity of the idempotence
\* property to the calibration bytes the sensor holds).
ProbeResetReloading ==
    /\ pc = "reset"
    /\ \E ret \in WriteResults(REG_RESET) :
        /\ faults' = Charge(ret)
        /\ log' = Append(log, LogEntry("write", REG_RESET, RESET_CMD, ret))
        /\ IF WriteFailed(ret)
           THEN /\ pc' = "return" /\ probeRet' = -EIO
                /\ UNCHANGED <<tries, ctrl_meas, config, sample, im_update,
                               conversions, nvm>>
           ELSE /\ pc' = "poll" /\ tries' = POLL_TRIES
                /\ ctrl_meas' = 0 /\ config' = 0 /\ sample' = ResetSample
                /\ conversions' = 0
                /\ im_update' \in BusyReads
                /\ nvm' \in Calibs
                /\ UNCHANGED probeRet
    /\ UNCHANGED <<chipId, status, calibIdx, lsb, devVars, sh, obsVars>>

\* Lines 199-213: soft reset, then the poll loop's initialisation.  A reset
\* puts the sensor's registers back to their power-on content.
ProbeReset ==
    /\ pc = "reset"
    /\ \E ret \in WriteResults(REG_RESET) :
        /\ faults' = Charge(ret)
        /\ log' = Append(log, LogEntry("write", REG_RESET, RESET_CMD, ret))
        /\ IF WriteFailed(ret)
           THEN /\ pc' = "return" /\ probeRet' = -EIO
                /\ UNCHANGED <<tries, ctrl_meas, config, sample, im_update,
                               conversions>>
           ELSE /\ pc' = "poll" /\ tries' = POLL_TRIES
                /\ ctrl_meas' = 0 /\ config' = 0 /\ sample' = ResetSample
                /\ conversions' = 0
                /\ im_update' \in BusyReads
                /\ UNCHANGED probeRet
    /\ UNCHANGED <<chipId, nvm, status, calibIdx, lsb, devVars, sh, obsVars>>

\* Line 219: (status & 0x01).
ImUpdate(s) == s % 2 = 1

\* Variant of PollAgain without the retry budget (sensitivity of the
\* poll bound).
PollAgainNoBudget(s, tr) == ImUpdate(s)

\* Variant of PollExit that treats an exhausted poll as fatal (sensitivity
\* of the soft-timeout property).
PollExitChecked(s) == IF ImUpdate(s) THEN "return" ELSE "ctrl_meas"

\* The loop condition of line 219, (status & 0x01) && --tries > 0, for the
\* value tr of tries before the decrement.
PollAgain(s, tr) == ImUpdate(s) /\ tr - 1 > 0

\* Where control goes when the loop ends with status s: line 234 follows the
\* loop whatever the last status was.
PollExit(s) == "ctrl_meas"

\* Lines 214-219: one iteration of the do-while NVM-copy poll.
ProbePoll ==
    /\ pc = "poll"
    /\ \E ret \in ReadResults(REG_STATUS) :
        /\ faults' = Charge(ret)
        /\ log' = Append(log, LogEntry("read", REG_STATUS, 0, ret))
        /\ status' = U8(ret)
        /\ im_update' = IF ret >= 0 /\ im_update > 0 THEN im_update - 1 ELSE im_update
        /\ tries' = IF ImUpdate(U8(ret)) THEN tries - 1 ELSE tries
        /\ pc' = IF PollAgain(U8(ret), tries) THEN "poll" ELSE PollExit(U8(ret))
    /\ UNCHANGED <<chipId, nvm, sample, ctrl_meas, config, conversions,
                   calibIdx, lsb, devVars, probeRet, sh, obsVars>>

\* Line 234: write ctrl_meas = 0x2F (normal mode, osrs_p x4, osrs_t x1).
ProbeCtrlMeas ==
    /\ pc = "ctrl_meas"
    /\ \E ret \in WriteResults(REG_CTRL_MEAS) :
        /\ faults' = Charge(ret)
        /\ log' = Append(log, LogEntry("write", REG_CTRL_MEAS, CTRL_MEAS_NORMAL, ret))
        /\ IF WriteFailed(ret)
           THEN pc' = "return" /\ probeRet' = -EIO /\ UNCHANGED ctrl_meas
           ELSE pc' = "config" /\ ctrl_meas' = CTRL_MEAS_NORMAL /\ UNCHANGED probeRet
    /\ UNCHANGED <<chipId, nvm, sample, config, im_update, conversions,
                   localVars, devVars, sh, obsVars>>

\* Line 252: write config = 0x48 (t_sb 125 ms, IIR filter 4).
ProbeConfig ==
    /\ pc = "config"
    /\ \E ret \in WriteResults(REG_CONFIG) :
        /\ faults' = Charge(ret)
        /\ log' = Append(log, LogEntry("write", REG_CONFIG, CONFIG_INIT, ret))
        /\ IF WriteFailed(ret)
           THEN pc' = "return" /\ probeRet' = -EIO /\ UNCHANGED config
           ELSE pc' = "alloc" /\ config' = CONFIG_INIT /\ UNCHANGED probeRet
    /\ UNCHANGED <<chipId, nvm, sample, ctrl_meas, im_update, conversions,
                   localVars, devVars, sh, obsVars>>

\* Variant of ProbeAlloc that creates the sysfs attribute together with
\* the client data, before the calibration reads (sensitivity of the
\* initialisation-before-acquisition property).
ProbeAllocPublishing ==
    /\ pc = "alloc"
    /\ data' = ZeroData
    /\ clientdata' = TRUE
    /\ attr' = TRUE
    /\ partial' = FALSE
    /\ showFailed' = FALSE
    /\ calibIdx' = 0
    /\ pc' = "calib"
    /\ UNCHANGED <<sensorVars, tries, status, lsb, readers, removeLog,
                   probeRet, log, sh, faults, obsVars>>

\* Lines 257-259: devm_kzalloc (zeroed), data->client, i2c_set_clientdata.
\* The allocation is taken to succeed.
ProbeAlloc ==
    /\ pc = "alloc"
    /\ data' = ZeroData
    /\ clientdata' = TRUE
    /\ partial' = FALSE
    /\ showFailed' = FALSE
    /\ calibIdx' = 0
    /\ pc' = "calib"
    /\ UNCHANGED <<sensorVars, tries, status, lsb, attr, readers, removeLog,
                   probeRet, log, sh, faults, obsVars>>

\* Variant of Word16 that takes the first byte read as the high byte
\* (sensitivity of the byte-order property).
Word16BigEndian(l, m) == IF l < 0 \/ m < 0 THEN -1 ELSE BitOr(l * 256, m)

\* read_u16_from_i2c / read_s16_from_i2c, lines 128-130 and 158-160: the
\* helper's int result from the two byte reads.
Word16(l, m) == IF l < 0 \/ m < 0 THEN -1 ELSE BitOr(m * 256, l)

\* The value stored in field f: the helper's return type (unsigned short or
\* short) applied to its result.
Decode(f, l, m) ==
    IF f \in UnsignedFields THEN U16(Word16(l, m)) ELSE S16(Word16(l, m))

\* Lines 262-274: one byte read of the calibration area; the read of the
\* high byte completes the helper call and stores the field.
ProbeCalib ==
    /\ pc = "calib"
    /\ LET a == REG_CALIB + calibIdx
           f == Fields[(calibIdx \div 2) + 1]
       IN \E ret \in ReadResults(a) :
            /\ faults' = Charge(ret)
            /\ log' = Append(log, LogEntry("read", a, 0, ret))
            /\ partial' = (partial \/ ret < 0)
            /\ IF calibIdx % 2 = 0
               THEN lsb' = ret /\ UNCHANGED data
               ELSE data' = [data EXCEPT ![f] = Decode(f, lsb, ret)] /\ UNCHANGED lsb
    /\ calibIdx' = calibIdx + 1
    /\ pc' = IF calibIdx + 1 = NCALIB THEN "create_file" ELSE "calib"
    /\ UNCHANGED <<sensorVars, tries, status, clientdata, attr, readers,
                   removeLog, probeRet, sh, showFailed, obsVars>>

\* Lines 277-280: device_create_file (it can fail, e.g. with -ENOMEM).
ProbeCreateFile ==
    /\ pc = "create_file"
    /\ \E ret \in {0, -12} :
        /\ log' = Append(log, LogEntry("create", 0, 0, ret))
        /\ IF ret < 0
           THEN probeRet' = -EIO /\ UNCHANGED attr
           ELSE probeRet' = 0 /\ attr' = TRUE
    /\ pc' = "return"
    /\ UNCHANGED <<sensorVars, localVars, data, clientdata, partial, readers,
                   removeLog, sh, showFailed, faults, obsVars>>

\* The return of bmp280_probe (lines 195, 201, 236, 254, 279, 282): the
\* locals die; after a failure devres releases the data and the device
\* stays unbound.
ProbeReturn ==
    /\ pc = "return"
    /\ pc' = IF probeRet = 0 THEN "bound" ELSE "unbound"
    /\ clientdata' = (clientdata /\ probeRet = 0)
    /\ data' = IF probeRet = 0 THEN data ELSE ZeroData
    /\ partial' = (partial /\ probeRet = 0)
    /\ tries' = 0 /\ status' = 0 /\ calibIdx' = 0 /\ lsb' = 0
    /\ log' = <<>>
    /\ UNCHANGED <<sensorVars, attr, readers, removeLog, probeRet, sh,
                   showFailed, faults, obsVars>>

ProbeNext ==
    \/ ProbeChipId \/ ProbeReset \/ ProbePoll \/ ProbeCtrlMeas \/ ProbeConfig
    \/ ProbeAlloc \/ ProbeCalib \/ ProbeCreateFile \/ ProbeReturn

-----------------------------------------------------------------------------
(* pressureAndTemperature_show                                             *)

REG_TEMP == 250           \* 0xFA: temperature msb, lsb, xlsb
REG_PRESS == 247          \* 0xF7: pressure msb, lsb, xlsb

\* Variant of Adc that ORs in the whole xlsb byte (sensitivity of the
\* sample-assembly property).
AdcUnshifted(msb, l, xlsb) == BitOr(BitOr(msb * 4096, l * 16), xlsb)

\* Lines 58 and 77: (msb << 12) | (lsb << 4) | (xlsb >> 4).
Adc(msb, l, xlsb) == BitOr(BitOr(msb * 4096, l * 16), xlsb \div 16)

\* Variant of TFine that keeps the value 0 once an acquisition has failed
\* since the attach (sensitivity of the property that nothing is carried
\* over between acquisitions).
TFineStale(d, adc_T) ==
    IF showFailed THEN L64(0)
    ELSE LET a    == L64(adc_T)
             var1 == Sar(Mul(Sub(Sar(a, 3), L64(d.dig_T1 * 2)), L64(d.dig_T2)), 11)
             x    == Sub(Sar(a, 4), L64(d.dig_T1))
             var2 == Sar(Mul(Sar(Mul(x, x), 12), L64(d.dig_T3)), 14)
         IN  Add(var1, var2)

\* Variant of TFine whose var1 subtracts dig_T1 without the shift by one
\* (sensitivity of the temperature formula).
TFineUnscaled(d, adc_T) ==
    LET a    == L64(adc_T)
        var1 == Sar(Mul(Sub(Sar(a, 3), L64(d.dig_T1)), L64(d.dig_T2)), 11)
        x    == Sub(Sar(a, 4), L64(d.dig_T1))
        var2 == Sar(Mul(Sar(Mul(x, x), 12), L64(d.dig_T3)), 14)
    IN  Add(var1, var2)

\* Lines 61-64: t_fine from adc_T and the stored dig_T1..dig_T3.
TFine(d, adc_T) ==
    LET a    == L64(adc_T)
        var1 == Sar(Mul(Sub(Sar(a, 3), L64(d.dig_T1 * 2)), L64(d.dig_T2)), 11)
        x    == Sub(Sar(a, 4), L64(d.dig_T1))
        var2 == Sar(Mul(Sar(Mul(x, x), 12), L64(d.dig_T3)), 14)
    IN  Add(var1, var2)

\* Line 65: T = (t_fine * 5 + 128) >> 8.
Temp(t_fine) == Sar(Add(Mul(t_fine, L64(5)), L64(128)), 8)

\* Lines 81-84: var2 of the pressure stage.
PVar2(d, t_fine) ==
    LET var1 == Sub(t_fine, L64(128000))
        v2a  == Mul(Mul(var1, var1), L64(d.dig_P6))
        v2b  == Add(v2a, Shl(Mul(var1, L64(d.dig_P5)), 17))
    IN  Add(v2b, Shl(L64(d.dig_P4), 35))

\* Lines 81, 85-86: var1 of the pressure stage, the divisor of line 93.
PVar1(d, t_fine) ==
    LET var1 == Sub(t_fine, L64(128000))
        v1a  == Add(Sar(Mul(Mul(var1, var1), L64(d.dig_P3)), 8),
                    Shl(Mul(var1, L64(d.dig_P2)), 12))
    IN  Sar(Mul(Add(Shl(L64(1), 47), v1a), L64(d.dig_P1)), 33)

\* Lines 94-96: the compensated pressure (Q24.8) from the quotient p1 of
\* line 93.
PressFrom(d, p1) ==
    LET v1 == Sar(Mul(Mul(L64(d.dig_P9), Sar(p1, 13)), Sar(p1, 13)), 25)
        v2 == Sar(Mul(L64(d.dig_P8), p1), 19)
    IN  Add(Sar(Add(Add(p1, v1), v2), 8), Shl(L64(d.dig_P7), 4))

\* Lines 92-96 for a divisor var1 # 0.
Press(d, adc_P, var1, var2) ==
    LET p0 == Sub(L64(1048576), L64(adc_P))
    IN  PressFrom(d, Div(Mul(Sub(Shl(p0, 31), var2), L64(3125)), var1))

\* C's x / k for a small constant k > 0 (truncating toward zero).
DivConst(x, k) ==
    LET q == DivSmallU(Abs(x), k, 8, 0)[1]
    IN  IF IsNeg(x) THEN Neg(q) ELSE q

\* The text sprintf writes (lines 89 and 99), as its pieces; p is the
\* pressure field's digits.
Text(T, p) ==
    <<"Temperature: ">> \o Dec(DivConst(T, 100)) \o <<"°C\nPressure: ">>
        \o p \o <<"Pa\n">>

\* sprintf's return value: the number of bytes of Text(T, p) ("°" is two).
TextLen(T, p) == 13 + Len(Dec(DivConst(T, 100))) + 14 + Len(p) + 3

\* Variant of DivGuard without the guard (sensitivity of the division
\* guard property).
DivGuardOff(var1) == FALSE

\* The guard of line 88.
DivGuard(var1) == IsZero(var1)

\* The outcome of a show call that returns sprintf's result with pressure
\* field p.
Returned(T, p) == [pc |-> "done", ret |-> TextLen(T, p), buf |-> Text(T, p)]

\* Lines 81-99: the possible outcomes of the pressure stage.  A division by
\* zero at line 93 is undefined: the CPU raises a divide error and the call
\* is killed ("trap", x86), or the quotient is 0 (arm64).
PressureStage(d, t_fine, T, adc_P) ==
    LET var1 == PVar1(d, t_fine)
        var2 == PVar2(d, t_fine)
    IN  IF DivGuard(var1)
        THEN {Returned(T, <<"0">>)}
        ELSE IF IsZero(var1)
        THEN {[pc |-> "trap", ret |-> Running, buf |-> <<>>],
              Returned(T, Dec(DivConst(PressFrom(d, L64(0)), 256)))}
        ELSE {Returned(T, Dec(DivConst(Press(d, adc_P, var1, var2), 256)))}

\* Variants of AnyFailed: only the first read is tested; every acquisition
\* is taken as failed (sensitivity of the no-partial-result and retry
\* properties).
AnyFailedFirst(r1, r2, r3) == r1 < 0
AnyFailedAlways(r1, r2, r3) == TRUE

\* Lines 53 and 72: one of the three reads failed.
AnyFailed(r1, r2, r3) == r1 < 0 \/ r2 < 0 \/ r3 < 0

\* The attribute exists and bmp280_probe has returned.  (The return touches
\* nothing a reader sees, so a read that overlaps it behaves as one that
\* follows it.)
Published == attr /\ pc # "return"

\* Variant of ShowEnter that starts a forced-mode measurement by writing
\* ctrl_meas (sensitivity of the sensor-mode property).
ShowEnterForced(c) ==
    /\ Published
    /\ c \in readers
    /\ sh[c].pc = "idle"
    /\ sh' = [sh EXCEPT ![c] = [IdleShow EXCEPT !.pc = "temp"]]
    /\ ctrl_meas' = 37
    /\ UNCHANGED <<chipId, nvm, sample, config, im_update, conversions, pc,
                   localVars, devVars, probeRet, log, faults, obsVars>>

\* Lines 44-46: a reader enters show through the sysfs attribute.
ShowEnter(c) ==
    /\ Published
    /\ c \in readers
    /\ sh[c].pc = "idle"
    /\ sh' = [sh EXCEPT ![c] = [IdleShow EXCEPT !.pc = "temp"]]
    /\ UNCHANGED <<sensorVars, pc, localVars, devVars, probeRet, log, faults,
                   obsVars>>

\* Variant of ShowReadT that returns -EIO at the first temperature read
\* that fails, without issuing the remaining ones (sensitivity of the
\* read-order property).
ShowReadTEarlyExit(c) ==
    /\ sh[c].pc = "temp"
    /\ LET s == sh[c]
           a == REG_TEMP + Len(s.rd)
       IN \E ret \in ReadResults(a) :
            LET rd == Append(s.rd, ret)
                t  == [s EXCEPT !.rd = rd,
                                !.ops = Append(s.ops, LogEntry("read", a, 0, ret))]
            IN  /\ faults' = Charge(ret)
                /\ sh' = [sh EXCEPT ![c] =
                     IF ret < 0
                     THEN [t EXCEPT !.pc = "done", !.ret = -EIO]
                     ELSE IF Len(rd) < 3 THEN t
                     ELSE LET tf == TFine(data, Adc(rd[1], rd[2], rd[3]))
                          IN  [t EXCEPT !.pc = "press",
                                        !.t_fine = tf, !.T = Temp(tf)]]
                /\ showFailed' = (showFailed \/ ret < 0)
    /\ UNCHANGED <<sensorVars, pc, localVars, bindVars, probeRet, log,
                   obsVars>>

\* Lines 49-65: one read of 0xFA, 0xFB, 0xFC; after the third, the failure
\* test and the temperature compensation.
ShowReadT(c) ==
    /\ sh[c].pc = "temp"
    /\ LET s == sh[c]
           a == REG_TEMP + Len(s.rd)
       IN \E ret \in ReadResults(a) :
            LET rd == Append(s.rd, ret)
                t  == [s EXCEPT !.rd = rd,
                                !.ops = Append(s.ops, LogEntry("read", a, 0, ret))]
            IN  /\ faults' = Charge(ret)
                /\ sh' = [sh EXCEPT ![c] =
                     IF Len(rd) < 3 THEN t
                     ELSE IF AnyFailed(rd[1], rd[2], rd[3])
                     THEN [t EXCEPT !.pc = "done", !.ret = -EIO]
                     ELSE LET tf == TFine(data, Adc(rd[1], rd[2], rd[3]))
                          IN  [t EXCEPT !.pc = "press",
                                        !.t_fine = tf, !.T = Temp(tf)]]
                /\ showFailed' = (showFailed \/ (Len(rd) = 3
                                      /\ AnyFailed(rd[1], rd[2], rd[3])))
    /\ UNCHANGED <<sensorVars, pc, localVars, bindVars, probeRet, log,
                   obsVars>>

\* Variant of ShowReadP in which t_fine and T are shared between the calls
\* (static instead of automatic variables), so the pressure stage may use
\* the values another call has left (sensitivity of the property that
\* concurrent calls share no mutable state).
ShowReadPShared(c) ==
    /\ sh[c].pc = "press"
    /\ LET s == sh[c]
           a == REG_PRESS + Len(s.rd) - 3
       IN \E ret \in ReadResults(a) :
            LET rd == Append(s.rd, ret)
                t  == [s EXCEPT !.rd = rd,
                                !.ops = Append(s.ops, LogEntry("read", a, 0, ret))]
            IN  /\ faults' = Charge(ret)
                /\ IF Len(rd) < 6
                   THEN sh' = [sh EXCEPT ![c] = t]
                   ELSE IF AnyFailed(rd[4], rd[5], rd[6])
                   THEN sh' = [sh EXCEPT ![c] =
                                 [t EXCEPT !.pc = "done", !.ret = -EIO]]
                   ELSE \E r \in Readers :
                        \E out \in PressureStage(data, sh[r].t_fine, sh[r].T,
                                                  Adc(rd[4], rd[5], rd[6])) :
                          sh' = [sh EXCEPT ![c] =
                                   [t EXCEPT !.pc = out.pc,
                                             !.ret = out.ret, !.buf = out.buf]]
                /\ showFailed' = (showFailed \/ (Len(rd) = 6
                                      /\ AnyFailed(rd[4], rd[5], rd[6])))
    /\ UNCHANGED <<sensorVars, pc, localVars, bindVars, probeRet, log,
                   obsVars>>

\* Lines 68-99: one read of 0xF7, 0xF8, 0xF9; after the third, the failure
\* test, the pressure compensation and the sprintf.
ShowReadP(c) ==
    /\ sh[c].pc = "press"
    /\ LET s == sh[c]
           a == REG_PRESS + Len(s.rd) - 3
       IN \E ret \in ReadResults(a) :
            LET rd == Append(s.rd, ret)
                t  == [s EXCEPT !.rd = rd,
                                !.ops = Append(s.ops, LogEntry("read", a, 0, ret))]
            IN  /\ faults' = Charge(ret)
                /\ IF Len(rd) < 6
                   THEN sh' = [sh EXCEPT ![c] = t]
                   ELSE IF AnyFailed(rd[4], rd[5], rd[6])
                   THEN sh' = [sh EXCEPT ![c] =
                                 [t EXCEPT !.pc = "done", !.ret = -EIO]]
                   ELSE \E out \in PressureStage(data, s.t_fine, s.T,
                                                  Adc(rd[4], rd[5], rd[6])) :
                          sh' = [sh EXCEPT ![c] =
                                   [t EXCEPT !.pc = out.pc,
                                             !.ret = out.ret, !.buf = out.buf]]
                /\ showFailed' = (showFailed \/ (Len(rd) = 6
                                      /\ AnyFailed(rd[4], rd[5], rd[6])))
    /\ UNCHANGED <<sensorVars, pc, localVars, bindVars, probeRet, log,
                   obsVars>>

\* The return of show (lines 55, 74, 89, 99): the reader has its result.
ShowReturn(c) ==
    /\ sh[c].pc = "done"
    /\ sh' = [sh EXCEPT ![c] = IdleShow]
    /\ UNCHANGED <<sensorVars, pc, localVars, devVars, probeRet, log, faults,
                   obsVars>>

ShowNext == \E c \in Readers :
    ShowEnter(c) \/ ShowReadT(c) \/ ShowReadP(c) \/ ShowReturn(c)

-----------------------------------------------------------------------------
(* bmp280_remove                                                           *)

\* Variant of RemoveSleep that goes straight to the attribute removal
\* (sensitivity of the sleep-before-release property).
RemoveSleepSkipped ==
    /\ pc = "bound"
    /\ pc' = "remove_file"
    /\ removeLog' = <<>>
    /\ UNCHANGED <<sensorVars, localVars, data, clientdata, partial, attr,
                   readers, showFailed, probeRet, log, sh, faults, obsVars>>

\* Lines 306-309: write ctrl_meas = 0x00 (sleep mode); the result is ignored.
RemoveSleep ==
    /\ pc = "bound"
    /\ \E ret \in WriteResults(REG_CTRL_MEAS) :
        /\ faults' = Charge(ret)
        /\ ctrl_meas' = IF ret < 0 THEN ctrl_meas ELSE CTRL_MEAS_SLEEP
        /\ removeLog' = <<LogEntry("write", REG_CTRL_MEAS, CTRL_MEAS_SLEEP, ret)>>
    /\ pc' = "remove_file"
    /\ UNCHANGED <<chipId, nvm, sample, config, im_update, conversions,
                   localVars, data, clientdata, partial, attr, readers,
                   showFailed, probeRet, log, sh, obsVars>>

\* Line 311: device_remove_file, which waits for the show calls in flight;
\* after the return devres releases the data.
RemoveFile ==
    /\ pc = "remove_file"
    /\ \A c \in Readers : sh[c].pc = "idle"
    /\ attr' = FALSE
    /\ clientdata' = FALSE
    /\ data' = ZeroData
    /\ partial' = FALSE
    /\ showFailed' = FALSE
    /\ removeLog' = Append(removeLog, LogEntry("remove", 0, 0, 0))
    /\ pc' = "unbound"
    /\ UNCHANGED <<sensorVars, localVars, readers, probeRet, log, sh, faults,
                   obsVars>>

RemoveNext == RemoveSleep \/ RemoveFile

-----------------------------------------------------------------------------
(* The sensor                                                              *)

\* In normal mode (ctrl_meas mode bits 11) the sensor finishes its next
\* conversion and updates the data registers.  Only the updates a reader
\* can observe are modelled.
SensorConvert ==
    /\ Published
    /\ ctrl_meas % 4 = 3
    /\ conversions < Len(Measurements)
    /\ sample' = Measurements[conversions + 1]
    /\ conversions' = conversions + 1
    /\ UNCHANGED <<chipId, nvm, ctrl_meas, config, im_update, pc, localVars,
                   devVars, probeRet, log, sh, faults, obsVars>>

-----------------------------------------------------------------------------
Next == ProbeNext \/ ShowNext \/ RemoveNext \/ SensorConvert

Spec == Init /\ [][Next]_vars

\* bmp280_probe runs in a kernel thread that is scheduled until it returns
\* (msleep wakes up again); nothing is assumed about readers, the detach or
\* the sensor.
LiveSpec == Spec /\ WF_vars(ProbeNext)

-----------------------------------------------------------------------------
(* Repeated attaches on a bus on which every transfer succeeds.            *)

\* An observer notes the twelve values bmp280_probe has stored (lines
\* 262-274) while the device is bound.
NoteCalibration ==
    /\ pc = "bound"
    /\ data \notin earlier
    /\ earlier' = earlier \cup {data}
    /\ UNCHANGED <<sensorVars, pc, localVars, devVars, probeRet, log, sh,
                   faults, arg, res>>

NextObserved == Next \/ NoteCalibration

ReprobeSpec == InitReliable /\ [][NextObserved]_vars

\* sysfs lets several readers be inside show at once: their steps interleave
\* at every bus operation.
TwoReadersSpec == InitTwoReaders /\ [][Next]_vars


-----------------------------------------------------------------------------
(* The driver's pure computations, each applied once to arguments drawn    *)
(* from the sets below.                                                    *)

\* Values of the byte read at the base address and at base + 1.
LsbValues == 0..255
MsbValues == {0, 1, 18, 127, 128, 254, 255}

DecodeCalls == [fn : {"decode"}, l : LsbValues, m : MsbValues]

\* Temperature calibration words and raw temperature samples.
T1Values == {0, 27504, 65535}
T2Values == {-32768, -1, 0, 26435, 32767}
T3Values == {-32768, -1000, 0, 20000, 32767}
AdcValues == {0, 1, 15, 16, 519888, 524288, 1048575}

TempCalls ==
    [fn : {"temp"}, dig_T1 : T1Values, dig_T2 : T2Values, dig_T3 : T3Values,
     adc_T : AdcValues]

\* Bytes of the data registers.
SampleMsbValues == {0, 1, 126, 255}
SampleLsbValues == {0, 15, 237, 255}
XlsbValues == 0..255

AdcCalls ==
    [fn : {"adc"}, msb : SampleMsbValues, lsb : SampleLsbValues,
     xlsb : XlsbValues]

Calls == DecodeCalls \cup TempCalls \cup AdcCalls

InitCall ==
    /\ Unbound /\ readers = {1} /\ faults = MaxFaults
    /\ arg \in Calls /\ res = <<>>

\* read_u16_from_i2c / read_s16_from_i2c (lines 124-131, 154-161) with both
\* byte reads succeeding, as stored in each of the twelve fields
\* (lines 262-274).
ApplyDecode ==
    /\ arg.fn = "decode" /\ res = <<>>
    /\ res' = [i \in 1..12 |-> Decode(Fields[i], arg.l, arg.m)]
    /\ UNCHANGED <<sensorVars, pc, localVars, devVars, probeRet, log, sh,
                   faults, earlier, arg>>

\* Lines 61-65 of pressureAndTemperature_show: t_fine and T.
ApplyTemp ==
    /\ arg.fn = "temp" /\ res = <<>>
    /\ LET d  == [ZeroData EXCEPT !.dig_T1 = arg.dig_T1,
                                  !.dig_T2 = arg.dig_T2,
                                  !.dig_T3 = arg.dig_T3]
           tf == TFine(d, arg.adc_T)
       IN  res' = [t_fine |-> tf, T |-> Temp(tf)]
    /\ UNCHANGED <<sensorVars, pc, localVars, devVars, probeRet, log, sh,
                   faults, earlier, arg>>

\* Lines 58 and 77 of pressureAndTemperature_show: adc_T and adc_P from
\* three successfully read bytes.
ApplyAdc ==
    /\ arg.fn = "adc" /\ res = <<>>
    /\ res' = [adc_T |-> Adc(arg.msb, arg.lsb, arg.xlsb),
               adc_P |-> Adc(arg.msb, arg.lsb, arg.xlsb)]
    /\ UNCHANGED <<sensorVars, pc, localVars, devVars, probeRet, log, sh,
                   faults, earlier, arg>>

NextCall == ApplyDecode \/ ApplyTemp \/ ApplyAdc

CallSpec == InitCall /\ [][NextCall]_vars
-----------------------------------------------------------------------------
(* Properties.  `log` holds the bus operations of the probe call that is    *)
(* running or has reached its return statement (pc = "return").            *)

Failed(e) == e.ret < 0
IsBusOp(e) == e.op \in {"read", "write"}
IsStatusRead(e) == e.op = "read" /\ e.addr = 243
IsCalibRead(e) == e.op = "read" /\ e.addr \in 136..159

\* The positions of the status reads in the log, and the last of them (the
\* status reads are consecutive, see StepsInOrder).
StatusReads == {i \in DOMAIN log : IsStatusRead(log[i])}
LastStatusRead ==
    CHOOSE i \in StatusReads : i = Len(log) \/ ~IsStatusRead(log[i + 1])

\* Bit 0 of a read's result as the driver sees it.
BusyBit(e) == e.ret % 2 = 1

\* The probe call has reached its return statement.
AtReturn == pc = "return"

\* A show call holds six successfully read sample bytes.
SixRead(s) == Len(s.rd) = 6 /\ \A i \in 1..6 : s.rd[i] >= 0
SomeReadFailed(s) == \E i \in DOMAIN s.rd : s.rd[i] < 0

\* C1: calibration acquisition is all-or-nothing: when one of the 24
\* calibration byte reads of a bmp280_probe call has failed, the call returns
\* an error and leaves no sysfs attribute, and no show call ever runs on a
\* calibration set that a failed read has filled.
C1_CalibrationAllOrNothing ==
    /\ (AtReturn /\ \E i \in DOMAIN log : IsCalibRead(log[i]) /\ Failed(log[i]))
          => (probeRet < 0 /\ ~attr)
    /\ \A c \in Readers : sh[c].pc # "idle" => ~partial

C3_FailuresPropagate ==
    /\ (AtReturn /\ \E i \in DOMAIN log : IsBusOp(log[i]) /\ Failed(log[i]))
          => probeRet < 0
    /\ ~partial
    /\ \A c \in Readers :
          (sh[c].pc = "done" /\ SomeReadFailed(sh[c])) => sh[c].ret < 0

\* The initialisation step an entry of the log belongs to (0: none).
StepOf(e) ==
    IF e.op = "read" /\ e.addr = 208 THEN 1
    ELSE IF e.op = "write" /\ e.addr = 224 /\ e.val = 182 THEN 2
    ELSE IF IsStatusRead(e) THEN 3
    ELSE IF e.op = "write" /\ e.addr = 244 /\ e.val = 47 THEN 4
    ELSE IF e.op = "write" /\ e.addr = 245 /\ e.val = 72 THEN 5
    ELSE IF IsCalibRead(e) THEN 6
    ELSE IF e.op = "create" THEN 7
    ELSE 0

\* The order of the initialisation steps: every operation belongs to a step,
\* steps never go backwards, no step is skipped, the single-operation steps
\* happen once, and the calibration reads go through 0x88..0x9F in ascending
\* order, each address once, all of them before the attribute is created.
StepsInOrder ==
    /\ \A i \in DOMAIN log : StepOf(log[i]) >= 1
    /\ \A i, j \in DOMAIN log :
          i < j => /\ StepOf(log[i]) <= StepOf(log[j])
                   /\ StepOf(log[i]) = StepOf(log[j])
                         => StepOf(log[i]) \in {3, 6}
    /\ \A j \in DOMAIN log : \A s \in 1..(StepOf(log[j]) - 1) :
          \E i \in 1..(j - 1) : StepOf(log[i]) = s
    /\ \A i \in DOMAIN log :
          IsCalibRead(log[i]) =>
             IF i > 1 /\ IsCalibRead(log[i - 1])
             THEN log[i].addr = log[i - 1].addr + 1
             ELSE log[i].addr = 136
    /\ \A j \in DOMAIN log :
          log[j].op = "create" => IsCalibRead(log[j - 1]) /\ log[j - 1].addr = 159

\* No operation is issued after one that failed.
NothingAfterFailure ==
    \A i, j \in DOMAIN log : (i < j /\ IsBusOp(log[i])) => ~Failed(log[i])

\* C4: in every bmp280_probe run the initialisation steps happen in the
\* order chip ID, reset, status poll, ctrl_meas, config, calibration reads
\* 0x88..0x9F ascending and once each, attribute creation, and no step starts
\* unless every earlier operation succeeded.
C4_StepsInOrderAfterSuccess == StepsInOrder /\ NothingAfterFailure

\* The poll loop of the running probe call is over.
PollOver ==
    /\ pc \in {"ctrl_meas", "config", "alloc", "calib", "create_file", "return"}
    /\ \E i \in DOMAIN log : StepOf(log[i]) = 2 /\ ~Failed(log[i])

\* The poll reads the status register at least once and at most ten times
\* and stops at the first read whose bit 0 is clear.
PollBounded ==
    /\ Cardinality(StatusReads) <= 10
    /\ \A i \in StatusReads :
          ~BusyBit(log[i]) => (i = LastStatusRead /\ pc # "poll")
    /\ pc = "poll" => Cardinality(StatusReads) < 10
    /\ PollOver => /\ Cardinality(StatusReads) >= 1
                   /\ (BusyBit(log[LastStatusRead])
                          => Cardinality(StatusReads) = 10)

InProbe ==
    pc \in {"reset", "poll", "ctrl_meas", "config", "alloc", "calib",
            "create_file", "return"}

\* C5: the NVM-copy poll performs between 1 and 10 reads of register 0xF3
\* whatever the sensor and the transport answer, it ends at the first read
\* whose bit 0 is clear, and every bmp280_probe call returns.
C5_PollBoundedProbeReturns == []PollBounded /\ (InProbe ~> ~InProbe)

\* A poll of ten reads of which the tenth found bit 0 clear has ended.
C5_TenthReadClear ==
    /\ pc = "ctrl_meas"
    /\ Cardinality(StatusReads) = 10
    /\ ~BusyBit(log[LastStatusRead])

\* All ten polls found bit 0 set.
Exhausted ==
    /\ Cardinality(StatusReads) = 10
    /\ \A i \in StatusReads : BusyBit(log[i])

\* C6: when bit 0 of the status register is set on all ten polls,
\* bmp280_probe goes on with the write 0xF4 = 0x2F, and it returns 0 when
\* every later operation succeeds.
C6_SoftTimeout ==
    Exhausted =>
        /\ IF Len(log) = LastStatusRead
           THEN pc = "ctrl_meas"
           ELSE /\ log[LastStatusRead + 1].op = "write"
                /\ log[LastStatusRead + 1].addr = 244
                /\ log[LastStatusRead + 1].val = 47
        /\ (AtReturn /\ \A j \in DOMAIN log : j > LastStatusRead => ~Failed(log[j]))
              => probeRet = 0

\* A probe call whose poll was exhausted returns 0.
C6_ExhaustedThenBound == AtReturn /\ Exhausted /\ probeRet = 0 /\ attr

\* The divisor of line 93 for the bytes a show call has read.
DivisorOf(s) ==
    PVar1(data, TFine(data, BitOr(BitOr(s.rd[1] * 4096, s.rd[2] * 16), s.rd[3] \div 16)))
\* The temperature field (whole degrees) for the bytes a show call has read.
DegreesOf(s) ==
    Dec(DivConst(Temp(TFine(data, BitOr(BitOr(s.rd[1] * 4096, s.rd[2] * 16),
                                        s.rd[3] \div 16))), 100))

\* C7: division guard: no show call ever divides by a zero var1, and a call
\* whose six reads succeeded and whose var1 is 0 returns success with
\* pressure 0 and the temperature of the sample it read.
C7_DivisionGuard ==
    \A c \in Readers :
        /\ sh[c].pc # "trap"
        /\ (sh[c].pc = "done" /\ SixRead(sh[c]) /\ IsZero(DivisorOf(sh[c])))
              => /\ sh[c].buf = <<"Temperature: ">> \o DegreesOf(sh[c])
                                   \o <<"°C\nPressure: ", "0", "Pa\n">>
                 /\ sh[c].ret = 31 + Len(DegreesOf(sh[c]))

\* A show call has returned pressure 0 for a zero var1 although dig_P1 # 0.
C7_GuardTaken ==
    \E c \in Readers :
        /\ sh[c].pc = "done" /\ SixRead(sh[c])
        /\ data.dig_P1 # 0
        /\ IsZero(DivisorOf(sh[c]))
        /\ sh[c].ret > 0

\* C8: no partial result: a show call in which one of the six sample reads
\* failed ends with -EIO and an empty buffer, also when the failure is a
\* pressure read after the temperature has been computed.
C8_NoPartialResult ==
    \A c \in Readers :
        (SomeReadFailed(sh[c]) /\ Len(sh[c].rd) \in {3, 6})
            => /\ sh[c].pc = "done"
               /\ sh[c].ret = -5
               /\ sh[c].buf = <<>>

\* A show call has ended on a failed pressure read after three successful
\* temperature reads.
C8_PressureReadFailed ==
    \E c \in Readers :
        /\ sh[c].pc = "done" /\ Len(sh[c].rd) = 6
        /\ sh[c].rd[5] < 0
        /\ sh[c].ret = -5

\* C9: the calibration set is immutable while the attribute exists: no step
\* of any show call (nor anything else before the detach) changes a stored
\* calibration value, and a show call whose six reads succeed returns a
\* result, also after an earlier call has failed.
C9_CalibrationImmutable ==
    /\ [][(attr /\ attr') => data' = data]_vars
    /\ [](\A c \in Readers :
            (sh[c].pc \in {"done", "trap"} /\ ~SomeReadFailed(sh[c]))
                => (sh[c].pc = "done" /\ sh[c].ret > 0 /\ sh[c].buf # <<>>))

\* After a failed show call, a later one has returned a result.
C9_RetrySucceeded ==
    /\ showFailed
    /\ \E c \in Readers : sh[c].pc = "done" /\ SixRead(sh[c]) /\ sh[c].ret > 0

\* C10: a failed write of the reset command, of ctrl_meas or of config is
\* the last bus operation of its bmp280_probe call: the call returns an
\* error without polling, writing or reading any further, and no client data
\* and no attribute exist.
C10_FailedWriteAborts ==
    \A i \in DOMAIN log :
        (log[i].op = "write" /\ Failed(log[i]))
            => /\ i = Len(log)
               /\ AtReturn
               /\ probeRet < 0
               /\ ~attr /\ ~clientdata

\* A probe call has returned after its config write failed.
C10_ConfigWriteFailed ==
    /\ AtReturn /\ log # <<>>
    /\ log[Len(log)].op = "write" /\ log[Len(log)].addr = 245
    /\ Failed(log[Len(log)])
    /\ probeRet < 0

\* C11: every detach writes the sleep-mode byte before it releases
\* anything: whenever bmp280_remove is entered its first operation is the
\* write 0xF4 = 0x00, and whenever the sysfs attribute goes away that write
\* has been issued by the same call, as its only earlier operation.
C11_SleepBeforeRelease ==
    /\ [][(attr /\ ~attr')
            => /\ Len(removeLog) = 1
               /\ removeLog[1].op = "write"
               /\ removeLog[1].addr = 244 /\ removeLog[1].val = 0
               /\ removeLog'[2].op = "remove"]_vars
    /\ [][(pc = "bound" /\ pc' # "bound")
            => /\ Len(removeLog') = 1
               /\ removeLog'[1].op = "write"
               /\ removeLog'[1].addr = 244 /\ removeLog'[1].val = 0]_vars

\* A detach has removed the attribute after a sleep-mode write that failed
\* on the bus.
C11_RemovedAfterSleepWrite ==
    /\ ~attr /\ pc = "unbound"
    /\ Len(removeLog) = 2
    /\ removeLog[1].op = "write" /\ removeLog[1].ret < 0
    /\ removeLog[2].op = "remove"

\* The last 24 operations of the log are the reads of 0x88..0x9F, ascending.
CalibrationRead ==
    /\ Len(log) >= 24
    /\ \A k \in 0..23 :
          /\ log[Len(log) - 23 + k].op = "read"
          /\ log[Len(log) - 23 + k].addr = 136 + k

\* The positions of bmp280_probe before device_create_file has run, and the
\* unbound device.
BeforeCreation ==
    {"unbound", "reset", "poll", "ctrl_meas", "config", "alloc", "calib",
     "create_file"}

\* C12: no acquisition runs before initialisation is complete: the sysfs
\* attribute is created only by bmp280_probe after the read of the last
\* calibration byte (0x9F) and with the client data set, the stored values
\* do not change while the attribute exists, and a show call runs only on a
\* device that has the attribute and the client data and whose probe is
\* past the attribute creation.
C12_AttributeAfterInitialisation ==
    /\ [][(~attr /\ attr')
            => (pc = "create_file" /\ clientdata /\ CalibrationRead)]_vars
    /\ [][(attr /\ attr') => (data' = data /\ clientdata')]_vars
    /\ [](\A c \in Readers :
            sh[c].pc # "idle"
               => (attr /\ clientdata /\ pc \notin BeforeCreation))

\* A show call is reading samples on a device whose calibration set was
\* filled by a probe call without a failed read.
C12_ShowOnCompleteData ==
    \E c \in Readers :
        /\ sh[c].pc \notin {"idle", "done", "trap"}
        /\ Len(sh[c].rd) >= 1
        /\ attr /\ clientdata /\ ~partial
        /\ data # ZeroData

Unsigned16(l, m) == m * 256 + l
Signed16(l, m) ==
    IF m * 256 + l >= 32768 THEN m * 256 + l - 65536 ELSE m * 256 + l

\* C14: calibration decoding is little-endian for all twelve constants: with
\* both byte reads succeeding the stored value is msb*256 + lsb, lsb read at
\* the base address and msb at base + 1, unsigned (0..65535) for dig_T1 and
\* dig_P1 and two's-complement signed 16-bit for the other ten; lsb = 0x34,
\* msb = 0x12 gives 0x1234, and lsb = msb = 0xFF gives -1 in a signed field.
C14_LittleEndianDecode ==
    (arg # <<>> /\ arg.fn = "decode" /\ res # <<>>)
        => /\ \A i \in 1..12 :
                 res[i] = IF Fields[i] \in {"dig_T1", "dig_P1"}
                          THEN Unsigned16(arg.l, arg.m)
                          ELSE Signed16(arg.l, arg.m)
           /\ (arg.l = 52 /\ arg.m = 18) => \A i \in 1..12 : res[i] = 4660
           /\ (arg.l = 255 /\ arg.m = 255)
                 => \A i \in 1..12 :
                       res[i] = IF i \in {1, 4} THEN 65535 ELSE -1

\* The bytes 0xFF, 0xFF have been decoded: 65535 in dig_T1, -1 in dig_T2.
C14_AllOnesDecoded ==
    /\ arg # <<>> /\ arg.fn = "decode" /\ arg.l = 255 /\ arg.m = 255
    /\ res # <<>>
    /\ res[1] = 65535 /\ res[2] = -1

\* floor(x * y / 2^k) in unbounded integer arithmetic, computed from the
\* quotient and remainder of x by 2^k so that no intermediate value leaves
\* the range of the checker's integers.
FloorMulShift(x, y, k) == ((x \div (2 ^ k)) * y) + (((x % (2 ^ k)) * y) \div (2 ^ k))

\* The Bosch integer reference for the temperature.
RefVar1(T1, T2, adc) == FloorMulShift((adc \div 8) - (T1 * 2), T2, 11)
RefVar2(T1, T3, adc) ==
    LET x == (adc \div 16) - T1
    IN  FloorMulShift(FloorMulShift(x, x, 12), T3, 14)
RefTFine(T1, T2, T3, adc) == RefVar1(T1, T2, adc) + RefVar2(T1, T3, adc)
RefT(t_fine) == (t_fine * 5 + 128) \div 256

\* C15: temperature compensation matches the Bosch integer reference: for
\* every dig_T1, dig_T2, dig_T3 and every 20-bit adc_T, with floor shifts,
\* var1 = (((adc_T>>3) - (dig_T1<<1)) * dig_T2) >> 11,
\* var2 = (((((adc_T>>4) - dig_T1) * ((adc_T>>4) - dig_T1)) >> 12) * dig_T3) >> 14,
\* t_fine = var1 + var2 and T = (t_fine*5 + 128) >> 8; dig_T1 = 27504,
\* dig_T2 = 26435, dig_T3 = -1000, adc_T = 519888 give t_fine = 128422 and
\* T = 2508.
C15_TemperatureReference ==
    (arg # <<>> /\ arg.fn = "temp" /\ res # <<>>)
        => LET tf == RefTFine(arg.dig_T1, arg.dig_T2, arg.dig_T3, arg.adc_T)
           IN  /\ res.t_fine = L64(tf)
               /\ res.T = L64(RefT(tf))
               /\ (arg.dig_T1 = 27504 /\ arg.dig_T2 = 26435
                     /\ arg.dig_T3 = -1000 /\ arg.adc_T = 519888)
                       => (res.t_fine = L64(128422) /\ res.T = L64(2508))

\* The datasheet's worked example has been computed.
C15_WorkedExample ==
    /\ arg # <<>> /\ arg.fn = "temp" /\ res # <<>>
    /\ arg.dig_T1 = 27504 /\ arg.dig_T2 = 26435 /\ arg.dig_T3 = -1000
    /\ arg.adc_T = 519888
    /\ ToInt(res.t_fine) = 128422 /\ ToInt(res.T) = 2508

\* The 20-bit sample in three successfully read bytes.
SampleOf(msb, l, xlsb) == msb * 4096 + l * 16 + (xlsb \div 16)

\* t_fine as line 64 yields it for calibration d and the temperature bytes
\* of the reads rd.
FineOf(d, rd) ==
    LET adc  == L64(SampleOf(rd[1], rd[2], rd[3]))
        var1 == Sar(Mul(Sub(Sar(adc, 3), L64(d.dig_T1 * 2)), L64(d.dig_T2)), 11)
        x    == Sub(Sar(adc, 4), L64(d.dig_T1))
        var2 == Sar(Mul(Sar(Mul(x, x), 12), L64(d.dig_T3)), 14)
    IN  Add(var1, var2)

\* The outcomes of a show call, from calibration d and its six reads alone.
OutcomesOf(d, rd) ==
    PressureStage(d, FineOf(d, rd), Temp(FineOf(d, rd)),
                  SampleOf(rd[4], rd[5], rd[6]))

\* C16: the result of an acquisition is a function of the stored
\* calibration set and of the six bytes read in that acquisition only:
\* t_fine in the pressure stage is the one computed from the call's own
\* temperature bytes, and output and return value of a finished call are
\* the single outcome determined by calibration and the six bytes, whatever
\* calls preceded it.
C16_ResultFromOwnSample ==
    [][\A c \in Readers :
         /\ (sh[c].pc = "temp" /\ sh'[c].pc = "press")
               => sh'[c].t_fine = FineOf(data, sh'[c].rd)
         /\ (sh[c].pc = "press" /\ sh'[c].pc \in {"done", "trap"}
               /\ SixRead(sh'[c]))
               => /\ sh[c].t_fine = FineOf(data, sh'[c].rd)
                  /\ OutcomesOf(data, sh'[c].rd)
                       = {[pc |-> sh'[c].pc, ret |-> sh'[c].ret,
                           buf |-> sh'[c].buf]}]_vars

\* A show call has returned a result for the sensor's second measurement
\* after an earlier call on the same device failed.
C16_SecondSampleAfterFailure ==
    /\ showFailed /\ conversions = 2
    /\ \E c \in Readers :
          /\ sh[c].pc = "done" /\ SixRead(sh[c])
          /\ sh[c].rd = <<255, 255, 240, 255, 255, 255>>
          /\ sh[c].ret > 0

\* C17: raw sample assembly: for successfully read bytes MSB, LSB, XLSB in
\* 0..255 the assembled value is MSB*4096 + LSB*16 + floor(XLSB/16), lies in
\* 0..2^20-1 and does not depend on the low nibble of XLSB, and the
\* temperature and the pressure sample are assembled in the same way.
C17_SampleAssembly ==
    (arg # <<>> /\ arg.fn = "adc" /\ res # <<>>)
        => /\ res.adc_T = SampleOf(arg.msb, arg.lsb, arg.xlsb)
           /\ res.adc_T \in 0..1048575
           /\ res.adc_T = Adc(arg.msb, arg.lsb, (arg.xlsb \div 16) * 16)
           /\ res.adc_P = res.adc_T

\* A sample with a non-zero low nibble in XLSB has been assembled to the
\* full-scale value.
C17_FullScaleAssembled ==
    /\ arg # <<>> /\ arg.fn = "adc" /\ res # <<>>
    /\ arg.msb = 255 /\ arg.lsb = 255 /\ arg.xlsb = 255
    /\ res.adc_T = 1048575

\* The last write to register a in the log of the probe call, if any, wrote
\* value v and succeeded.
LastWriteIs(a, v) ==
    /\ \E i \in DOMAIN log : log[i].op = "write" /\ log[i].addr = a
    /\ \A i \in DOMAIN log :
          (log[i].op = "write" /\ log[i].addr = a
             /\ \A j \in (i + 1)..Len(log) :
                   ~(log[j].op = "write" /\ log[j].addr = a))
              => (log[i].val = v /\ ~Failed(log[i]))

\* C18: sensor mode over the lifecycle: when bmp280_probe has succeeded the
\* last value written to ctrl_meas (0xF4) is 0x2F and the last value written
\* to config (0xF5) is 0x48; from then until the detach no step changes
\* either register, so the sensor stays in normal mode; the first step that
\* changes ctrl_meas again is the write of 0x00 by bmp280_remove.
C18_NormalModeUntilRemove ==
    /\ []((pc = "return" /\ probeRet = 0)
            => (LastWriteIs(244, 47) /\ LastWriteIs(245, 72)))
    /\ []((pc = "bound" \/ (pc = "return" /\ probeRet = 0))
            => (ctrl_meas = 47 /\ config = 72 /\ ctrl_meas % 4 = 3))
    /\ [][(pc = "bound" /\ (ctrl_meas' # ctrl_meas \/ config' # config))
            => /\ pc' = "remove_file"
               /\ ctrl_meas' = 0 /\ config' = config
               /\ Len(removeLog') = 1
               /\ removeLog'[1].op = "write" /\ removeLog'[1].addr = 244
               /\ removeLog'[1].val = 0 /\ removeLog'[1].ret >= 0]_vars

\* The device is still bound and in normal mode after a show call has
\* returned the sensor's second measurement.
C18_BoundAfterAcquisitions ==
    /\ pc = "bound" /\ ctrl_meas = 47 /\ config = 72
    /\ conversions = 2
    /\ \E c \in Readers : sh[c].pc = "done" /\ sh[c].ret > 0

\* C19: read order within one acquisition: a show call issues bus reads
\* only, at most six; the first three are 0xFA, 0xFB, 0xFC in this order and
\* are all issued before the call returns, also when an earlier one failed;
\* the reads of 0xF7, 0xF8, 0xF9 follow in this order and only after three
\* successful temperature reads.
C19_ReadOrder ==
    \A c \in Readers :
        LET o == sh[c].ops
        IN  /\ Len(o) <= 6
            /\ \A i \in DOMAIN o :
                  /\ o[i].op = "read"
                  /\ o[i].addr = IF i <= 3 THEN 249 + i ELSE 243 + i
                  /\ o[i].ret = sh[c].rd[i]
            /\ Len(o) = Len(sh[c].rd)
            /\ Len(o) > 3 => \A i \in 1..3 : o[i].ret >= 0
            /\ sh[c].pc \in {"done", "trap"} => Len(o) \in {3, 6}
            /\ sh[c].pc = "temp" => Len(o) < 3
            /\ sh[c].pc = "press" => Len(o) \in 3..5
            /\ sh[c].pc = "idle" => Len(o) = 0

\* A show call has returned after three temperature reads of which the
\* first failed and the other two succeeded.
C19_AllThreeAfterFailure ==
    \E c \in Readers :
        /\ sh[c].pc = "done" /\ Len(sh[c].ops) = 3
        /\ sh[c].ops[1].ret < 0
        /\ sh[c].ops[2].ret >= 0 /\ sh[c].ops[3].ret >= 0
        /\ sh[c].ops[3].addr = 252

\* C20: acquisitions share no mutable driver state: with two show calls
\* interleaved at any bus operation, each finished call holds the output and
\* return value it would produce alone from the six bytes it has read
\* itself, and the calibration set still holds the sensor's calibration
\* words.
C20_InterleavedShowsIndependent ==
    /\ \A c \in Readers :
          (sh[c].pc \in {"done", "trap"})
             => /\ SixRead(sh[c])
                /\ OutcomesOf(data, sh[c].rd)
                     = {[pc |-> sh[c].pc, ret |-> sh[c].ret, buf |-> sh[c].buf]}
    /\ attr => \A i \in 1..12 : data[Fields[i]] = nvm[Fields[i]]

\* Two overlapping show calls have both returned: both read the temperature
\* before the sensor's first conversion, one read the pressure after the
\* first and the other after the second conversion.
C20_OverlappingCallsDone ==
    /\ sh[1].pc = "done" /\ sh[2].pc = "done"
    /\ sh[1].rd = <<128, 0, 0, 255, 255, 255>>
    /\ sh[2].rd = <<128, 0, 0, 101, 90, 192>>
    /\ sh[1].buf # sh[2].buf

====
